---------------------------- MODULE Spec2Model ----------------------------
(***************************************************************************)
(* The order workflow of the skincare shop backend                         *)
(* (src/routes/orderRoute.js): POST /add-to-cart, GET /vnpay-return and    *)
(* POST /cancel-order/:orderId, running concurrently against the Product   *)
(* and Order collections.  Every `await` of a handler is a suspension      *)
(* point: the code between two awaits runs as one step, and steps of       *)
(* different requests interleave freely.  The catalog's product routes     *)
(* (src/routes/brandRoute.js) and the manager routes                       *)
(* (src/routes/managerRoute.js) follow the workflow.                       *)
(***************************************************************************)
EXTENDS Integers, Sequences, FiniteSets, TLC

(***************************************************************************)
(* Bounds of the model.                                                    *)
(***************************************************************************)
\* number of add-to-cart and cancel-order requests of one behaviour
MaxReqs == 3
\* number of add-to-cart requests among them
MaxCarts == 2
\* number of cancel-order requests among them
MaxCancels == 2
\* number of Account documents
MaxAccounts == 2
\* stock of every product when the behaviour starts
InitQuantity == 1
\* largest quantity of a line item
MaxItemQty == 2
\* largest number of line items of a cart
MaxItems == 2

(***************************************************************************)
(* The catalog.  MissingProduct is a well-formed identifier that matches   *)
(* no Product document.                                                    *)
(***************************************************************************)
Products == {"p1", "p2"}
MissingProduct == "p0"
ProductIds == Products \cup {MissingProduct}

\* ProductSchema.price of the two documents when a behaviour starts (even,
\* so that half of a total is a whole number of currency units)
InitPrice == [p \in Products |-> IF p = "p1" THEN 100 ELSE 60]

\* the accounts: Customer is the account every cart is submitted for
Customer == "a1"
Accounts == {"a1", "a2"}

\* the requests, numbered in the order of their arrival
Reqs == 1..MaxReqs
\* identifiers of Order documents: the n-th persisted order has identifier n
\* (every add-to-cart request persists at most one)
OrderIds == 1..MaxCarts
\* a vnp_TxnRef / :orderId that cannot be cast to an ObjectId
MalformedRef == 0
Refs == OrderIds \cup {MalformedRef}

\* outcome of one I/O operation (a save, the gateway client)
Outcomes == {"ok", "error"}

VARIABLES
    quantity,   \* Product collection: ProductSchema.quantity of every product
    orders,     \* Order collection: sequence of Order documents, by identifier
    req,        \* the requests: handler position and handler-local variables
    price,      \* Product collection: ProductSchema.price of every product
    listed,     \* Product collection: identifiers that have a document
    user,       \* req.user of the cancel-order requests
    accounts,   \* Account collection: sequence of documents, by identifier
    answer201   \* the emails of the create-manager requests answered 201

\* what the order workflow never writes
catalog == <<price, listed>>
staff == <<accounts, answer201>>

vars == <<quantity, orders, req, price, listed, user, accounts, answer201>>

(***************************************************************************)
(* Responses.                                                              *)
(***************************************************************************)
Resp(code, kind, a, b) == [code |-> code, kind |-> kind, a |-> a, b |-> b]
NoResp == Resp(0, "none", 0, 0)
\* res.status(400) of the cart validation
EmptyCart == Resp(400, "EmptyCart", 0, 0)
\* res.status(404) of a line item without Product
ProductNotFound == Resp(404, "ProductNotFound", 0, 0)
\* res.status(400) "Not enough stock ... Available: a, Requested: b"
NotEnoughStock(available, requested) ==
    Resp(400, "NotEnoughStock", available, requested)
\* res.status(201) {vnpayResponse, orderId}
Created(orderId) == Resp(201, "Created", orderId, 0)
\* res.status(500) of the catch blocks
ServerError == Resp(500, "ServerError", 0, 0)
\* res.status(404) of cancel-order
OrderNotFound == Resp(404, "OrderNotFound", 0, 0)
\* res.status(400) "Only paid orders can be canceled."
OnlyPaid == Resp(400, "OnlyPaid", 0, 0)
\* res.status(200) {message, refundAmount}
Refunded(refundAmount) == Resp(200, "Refunded", refundAmount, 0)

(***************************************************************************)
(* Handler-local state of a request.                                       *)
(*   items, totalAmount, docs, i : locals of add-to-cart; of cancel-order, *)
(*                                 items/totalAmount/status are the Order  *)
(*                                 document read by findById               *)
(*   i        : index of the line item the handler is at, or ended at      *)
(*   saved    : number of Product saves this request has persisted         *)
(*   restored : line items whose restored stock cancel-order has persisted *)
(*   canceled : cancel-order has persisted status Canceled                 *)
(***************************************************************************)
Idle ==
    [kind |-> "none", pc |-> "idle", account |-> FALSE, items |-> <<>>,
     promotion |-> "None", i |-> 0, docs |-> <<>>, totalAmount |-> 0,
     orderId |-> 0, status |-> "none", refundAmount |-> 0, doc |-> 0,
     saved |-> 0, restored |-> {}, canceled |-> FALSE, resp |-> NoResp]

\* the request after its handler returned: the locals are gone
Ended(rec, resp) ==
    [Idle EXCEPT !.kind = rec.kind, !.pc = "done", !.orderId = rec.orderId,
                 !.i = rec.i,
                 !.saved = rec.saved, !.restored = rec.restored,
                 !.canceled = rec.canceled, !.resp = resp]

\* the collections and requests besides the stock when a behaviour starts
InitRest ==
    /\ orders = <<>>
    /\ req = [r \in Reqs |-> Idle]
    /\ price = InitPrice
    /\ listed = Products
    /\ user = [r \in Reqs |-> "none"]
    /\ accounts = <<>>
    /\ answer201 = {}

Init ==
    /\ quantity = [p \in Products |-> InitQuantity]
    /\ InitRest

\* request r is the next to arrive, and fewer than max requests of its
\* kind have arrived
CanStart(r, kind, max) ==
    /\ req[r].pc = "idle"
    /\ \A q \in Reqs : q < r => req[q].pc # "idle"
    /\ Cardinality({q \in Reqs : req[q].kind = kind}) < max

(***************************************************************************)
(* POST /add-to-cart                                                       *)
(***************************************************************************)
Items(Qtys) == [product : ProductIds, quantity : Qtys]
RECURSIVE SeqsUpTo(_, _)
SeqsUpTo(S, n) ==
    IF n = 0 THEN {<<>>}
    ELSE LET shorter == SeqsUpTo(S, n - 1)
         IN  shorter \cup {Append(s, x) : s \in {t \in shorter : Len(t) = n - 1}, x \in S}

\* the validation without its test of the account
InvalidCartItemsOnly(account, items) == Len(items) = 0

\* line 112: !account || !items || items.length === 0; the empty sequence
\* stands for an empty items list and for a body without items, which the
\* line answers alike
InvalidCart(account, items) == ~account \/ Len(items) = 0

\* the stock check with its operands exchanged
InsufficientStockInverted(available, requested) == requested < available

\* the stock check letting one unit too many through
InsufficientStockOffByOne(available, requested) == available < requested - 1

\* line 125: product.quantity < item.quantity
InsufficientStock(available, requested) == available < requested

\* the checking loop passing over a line item without Product instead of
\* answering 404
CheckLineItemSkipMissing(rec, stock) ==
    LET item == rec.items[rec.i]
        known == item.product \in listed
    IN  IF known /\ InsufficientStock(stock[item.product], item.quantity)
        THEN Ended(rec, NotEnoughStock(stock[item.product], item.quantity))
        ELSE [rec EXCEPT
                !.totalAmount = IF known THEN @ + item.quantity * price[item.product]
                                         ELSE @,
                !.docs = IF known
                         THEN Append(@, [product |-> item.product,
                                         quantity |-> stock[item.product] - item.quantity])
                         ELSE @,
                !.items = IF known THEN @
                          ELSE SubSeq(@, 1, rec.i - 1) \o SubSeq(@, rec.i + 1, Len(@)),
                !.i = IF rec.i = Len(rec.items) THEN 1
                      ELSE IF known THEN @ + 1 ELSE @,
                !.pc = IF rec.i = Len(rec.items) THEN "save" ELSE "find"]

\* the checking loop adding the unit price, not quantity times price, to
\* the total
CheckLineItemUnitPrice(rec, stock) ==
    LET item == rec.items[rec.i]
    IN  IF item.product \notin listed
        THEN Ended(rec, ProductNotFound)
        ELSE IF InsufficientStock(stock[item.product], item.quantity)
        THEN Ended(rec, NotEnoughStock(stock[item.product], item.quantity))
        ELSE [rec EXCEPT
                !.totalAmount = @ + price[item.product],
                !.docs = Append(@, [product |-> item.product,
                                    quantity |-> stock[item.product] - item.quantity]),
                !.i = IF rec.i = Len(rec.items) THEN 1 ELSE @ + 1,
                !.pc = IF rec.i = Len(rec.items) THEN "save" ELSE "find"]

\* lines 119-134: one iteration of the checking loop, given the stock that
\* its findById reads; yields the request after the iteration
CheckLineItem(rec, stock) ==
    LET item == rec.items[rec.i]
    IN  IF item.product \notin listed
        THEN Ended(rec, ProductNotFound)
        ELSE IF InsufficientStock(stock[item.product], item.quantity)
        THEN Ended(rec, NotEnoughStock(stock[item.product], item.quantity))
        ELSE [rec EXCEPT
                !.totalAmount = @ + item.quantity * price[item.product],
                !.docs = Append(@, [product |-> item.product,
                                    quantity |-> stock[item.product] - item.quantity]),
                !.i = IF rec.i = Len(rec.items) THEN 1 ELSE @ + 1,
                !.pc = IF rec.i = Len(rec.items) THEN "save" ELSE "find"]

\* lines 108-134: the request arrives: destructuring with the default
\* promotion, the validation, and the first iteration of the checking loop
\* (nothing of the request is visible to other requests before its first
\* findById)
AddToCart(r, account, items, promotion) ==
    /\ CanStart(r, "cart", MaxCarts)
    /\ LET rec == [Idle EXCEPT !.kind = "cart", !.account = account,
                               !.items = items, !.promotion = promotion,
                               !.pc = "find", !.i = 1]
       IN  req' = [req EXCEPT ![r] =
                      IF InvalidCart(account, items)
                      THEN Ended(rec, EmptyCart)
                      ELSE CheckLineItem(rec, quantity)]
    /\ UNCHANGED <<quantity, orders, catalog, user, staff>>

\* lines 119-134: a later iteration of the checking loop
CartFindProduct(r) ==
    /\ req[r].kind = "cart" /\ req[r].pc = "find"
    /\ req' = [req EXCEPT ![r] = CheckLineItem(req[r], quantity)]
    /\ UNCHANGED <<quantity, orders, catalog, user, staff>>

\* lines 136-139: product.save() of one changed Product document; save()
\* writes the document's own quantity ($set), whatever the stored one is now
CartSaveProduct(r, outcome) ==
    /\ req[r].kind = "cart" /\ req[r].pc = "save"
    /\ LET rec == req[r]
           doc == rec.docs[rec.i]
           modified == rec.items[rec.i].quantity # 0
       IN  IF outcome = "error"
           THEN /\ req' = [req EXCEPT ![r] = Ended(rec, ServerError)]
                /\ UNCHANGED quantity
           ELSE /\ quantity' = IF modified
                               THEN [quantity EXCEPT ![doc.product] = doc.quantity]
                               ELSE quantity
                /\ req' = [req EXCEPT ![r] =
                      [rec EXCEPT !.saved = @ + 1,
                                  !.i = IF rec.i = Len(rec.docs) THEN 0 ELSE @ + 1,
                                  !.pc = IF rec.i = Len(rec.docs) THEN "order" ELSE "save"]]
    /\ UNCHANGED <<orders, catalog, user, staff>>

\* OrderSchema: promotion is an ObjectId ("None" is none), items.quantity min 1
OrderValidates(account, items, promotion) ==
    /\ account
    /\ promotion # "None"
    /\ \A k \in 1..Len(items) : items[k].quantity >= 1

\* lines 141-150: new db.Order({... status: "Pending"}) and newOrder.save()
CartSaveOrder(r, outcome) ==
    /\ req[r].kind = "cart" /\ req[r].pc = "order"
    /\ LET rec == req[r]
       IN  IF outcome = "ok" /\ OrderValidates(rec.account, rec.items, rec.promotion)
           THEN /\ orders' = Append(orders,
                                [account |-> rec.account, items |-> rec.items,
                                 promotion |-> rec.promotion,
                                 totalAmount |-> rec.totalAmount,
                                 status |-> "Pending"])
                /\ req' = [req EXCEPT ![r] =
                      [rec EXCEPT !.orderId = Len(orders) + 1, !.pc = "pay"]]
           ELSE /\ req' = [req EXCEPT ![r] = Ended(rec, ServerError)]
                /\ UNCHANGED orders
    /\ UNCHANGED <<quantity, catalog, user, staff>>

\* lines 152-180: vnpay.buildPaymentUrl and the 201, or the catch block
CartBuildPaymentUrl(r, outcome) ==
    /\ req[r].kind = "cart" /\ req[r].pc = "pay"
    /\ req' = [req EXCEPT ![r] =
                 Ended(req[r], IF outcome = "ok" THEN Created(req[r].orderId)
                                                 ELSE ServerError)]
    /\ UNCHANGED <<quantity, orders, catalog, user, staff>>

(***************************************************************************)
(* GET /vnpay-return                                                       *)
(***************************************************************************)
\* the test of the response code negated
PaymentSucceededNegated(code) == code # "00"

\* a test that takes every response code for the success code
PaymentSucceededAlways(code) == code = code

\* line 324: vnp_ResponseCode === "00"
PaymentSucceeded(code) == code = "00"

\* line 326: findByIdAndUpdate(vnp_TxnRef, {status: "Paid"}): the status the
\* document gets, whatever its status is
StatusAfterReturn(status) == "Paid"

\* what GET /vnpay-return answers: a redirect to one of the two pages, or
\* the 500 of the catch block
Answers == {"payment-success", "payment-failed", "500"}

\* lines 320-335: the callback for vnp_TxnRef = ref with vnp_ResponseCode =
\* code is answered by answer
VnpayReturn(ref, code, answer) ==
    /\ IF PaymentSucceeded(code)
       THEN IF ref = MalformedRef
            THEN /\ answer = "500"
                 /\ UNCHANGED orders
            ELSE /\ orders' = [k \in 1..Len(orders) |->
                                 IF k = ref
                                 THEN [orders[k] EXCEPT !.status = StatusAfterReturn(@)]
                                 ELSE orders[k]]
                 /\ answer = "payment-success"
       ELSE /\ answer = "payment-failed"
            /\ UNCHANGED orders
    /\ UNCHANGED <<quantity, req, catalog, user, staff>>

(***************************************************************************)
(* POST /cancel-order/:orderId                                             *)
(***************************************************************************)
\* a guard that only refuses orders already canceled
CancelableUnlessCanceled(status) == status # "Canceled"

\* a guard that also lets orders awaiting payment through
CancelablePendingToo(status) == status \in {"Pending", "Paid"}

\* line 266: order.status !== "Paid" answers 400
Cancelable(status) == status = "Paid"

\* line 269: order.totalAmount * 0.5
RefundAmount(totalAmount) == (totalAmount * 5) \div 10

\* what populate("items.product") leaves in place of a reference that
\* matches no Product document
NoProduct == "null"

\* line 260: populate("items.product") of the order's line items
Populated(items) ==
    [k \in 1..Len(items) |->
        IF items[k].product \in listed THEN items[k]
        ELSE [items[k] EXCEPT !.product = NoProduct]]

\* lines 257-269: the request of account who arrives (the handler never
\* reads req.user): findById(orderId).populate(...), the 404 and the 400
CancelOrderAs(r, orderId, who) ==
    /\ CanStart(r, "cancel", MaxCancels)
    /\ LET rec == [Idle EXCEPT !.kind = "cancel", !.orderId = orderId]
       IN  req' = [req EXCEPT ![r] =
             IF orderId = MalformedRef THEN Ended(rec, ServerError)
             ELSE IF orderId > Len(orders) THEN Ended(rec, OrderNotFound)
             ELSE IF ~Cancelable(orders[orderId].status) THEN Ended(rec, OnlyPaid)
             ELSE [rec EXCEPT !.pc = "find", !.i = 1,
                              !.items = Populated(orders[orderId].items),
                              !.status = orders[orderId].status,
                              !.totalAmount = orders[orderId].totalAmount,
                              !.refundAmount = RefundAmount(orders[orderId].totalAmount)]]
    /\ user' = [user EXCEPT ![r] = who]
    /\ UNCHANGED <<quantity, orders, catalog, staff>>

\* lines 257-269: the request of the order's account arrives
CancelOrder(r, orderId) == CancelOrderAs(r, orderId, Customer)

\* lines 271-274: findById of the line item's product, quantity += on the
\* document read; item.product._id of a reference populated with null
\* throws a TypeError
CancelFindProduct(r) ==
    /\ req[r].kind = "cancel" /\ req[r].pc = "find"
    /\ LET rec == req[r]
           item == rec.items[rec.i]
       IN  req' = [req EXCEPT ![r] =
             IF item.product = NoProduct
             THEN Ended(rec, ServerError)
             ELSE IF item.product \in listed
             THEN [rec EXCEPT !.doc = quantity[item.product] + item.quantity,
                              !.pc = "save"]
             ELSE [rec EXCEPT !.pc = "order"]]
    /\ UNCHANGED <<quantity, orders, catalog, user, staff>>

\* line 275: product.save()
CancelSaveProduct(r, outcome) ==
    /\ req[r].kind = "cancel" /\ req[r].pc = "save"
    /\ LET rec == req[r]
           item == rec.items[rec.i]
       IN  IF outcome = "error"
           THEN /\ req' = [req EXCEPT ![r] = Ended(rec, ServerError)]
                /\ UNCHANGED quantity
           ELSE /\ quantity' = [quantity EXCEPT ![item.product] = rec.doc]
                /\ req' = [req EXCEPT ![r] =
                      [rec EXCEPT !.restored = @ \cup {rec.i}, !.saved = @ + 1,
                                  !.doc = 0, !.pc = "order"]]
    /\ UNCHANGED <<orders, catalog, user, staff>>

\* line 299: `account` is no variable of the handler nor of the module, so
\* building mailOptions throws a ReferenceError
MailOptionsThrow == TRUE

\* lines 278-313, inside the first iteration of the loop over order.items:
\* order.save() with status Canceled, the refund mail, the return of the 200
CancelSaveOrder(r, outcome) ==
    /\ req[r].kind = "cancel" /\ req[r].pc = "order"
    /\ LET rec == req[r]
       IN  IF outcome = "error"
           THEN /\ req' = [req EXCEPT ![r] = Ended(rec, ServerError)]
                /\ UNCHANGED orders
           ELSE /\ orders' = [orders EXCEPT ![rec.orderId].status = "Canceled"]
                /\ req' = [req EXCEPT ![r] =
                      Ended([rec EXCEPT !.canceled = TRUE],
                            IF MailOptionsThrow THEN ServerError
                                                ELSE Refunded(rec.refundAmount))]
    /\ UNCHANGED <<quantity, catalog, user, staff>>

\* the carts a client submits: line quantities from Qtys
Carts(Qtys) == SeqsUpTo(Items(Qtys), MaxItems)

Next ==
    \/ \E r \in Reqs, account \in BOOLEAN, items \in Carts(1..MaxItemQty),
          promotion \in {"promo", "None"} :
            AddToCart(r, account, items, promotion)
    \/ \E r \in Reqs : CartFindProduct(r)
    \/ \E r \in Reqs, outcome \in Outcomes : CartSaveProduct(r, outcome)
    \/ \E r \in Reqs, outcome \in Outcomes : CartSaveOrder(r, outcome)
    \/ \E r \in Reqs, outcome \in Outcomes : CartBuildPaymentUrl(r, outcome)
    \/ \E ref \in Refs, code \in {"00", "24"}, answer \in Answers :
            VnpayReturn(ref, code, answer)
    \/ \E r \in Reqs, orderId \in Refs : CancelOrder(r, orderId)
    \/ \E r \in Reqs : CancelFindProduct(r)
    \/ \E r \in Reqs, outcome \in Outcomes : CancelSaveProduct(r, outcome)
    \/ \E r \in Reqs, outcome \in Outcomes : CancelSaveOrder(r, outcome)

Spec == Init /\ [][Next]_vars

(***************************************************************************)
(* The same handlers with the requests served one after the other: a       *)
(* request arrives only when no handler is between two of its awaits.  The *)
(* stock starts at ScenarioQuantity, and a line item may carry a quantity  *)
(* below 1 (nothing in the route rejects it).                              *)
(***************************************************************************)
\* stock of every product when a sequential behaviour starts
ScenarioQuantity == 10
\* the positive quantity of a line item of a sequential behaviour
ScenarioItemQty == 3
\* the line quantities of a sequential behaviour: negative, zero, positive
AnyQtys == {0 - 1, 0, ScenarioItemQty}

InitSeq ==
    /\ quantity = [p \in Products |-> ScenarioQuantity]
    /\ InitRest

\* no handler is between two of its awaits
Quiet == \A q \in Reqs : req[q].pc \in {"idle", "done"}

NextSeq ==
    \/ /\ Quiet
       /\ \E r \in Reqs, account \in BOOLEAN, items \in Carts(AnyQtys),
             promotion \in {"promo", "None"} :
               AddToCart(r, account, items, promotion)
    \/ \E r \in Reqs : CartFindProduct(r)
    \/ \E r \in Reqs, outcome \in Outcomes : CartSaveProduct(r, outcome)
    \/ \E r \in Reqs, outcome \in Outcomes : CartSaveOrder(r, outcome)
    \/ \E r \in Reqs, outcome \in Outcomes : CartBuildPaymentUrl(r, outcome)
    \/ /\ Quiet
       /\ \E ref \in Refs, code \in {"00", "24"}, answer \in Answers :
               VnpayReturn(ref, code, answer)
    \/ /\ Quiet
       /\ \E r \in Reqs, orderId \in Refs : CancelOrder(r, orderId)
    \/ \E r \in Reqs : CancelFindProduct(r)
    \/ \E r \in Reqs, outcome \in Outcomes : CancelSaveProduct(r, outcome)
    \/ \E r \in Reqs, outcome \in Outcomes : CancelSaveOrder(r, outcome)

SpecSeq == InitSeq /\ [][NextSeq]_vars

(***************************************************************************)
(* The catalog's product routes (src/routes/brandRoute.js) beside the      *)
(* order workflow.  The requests are served one after the other, and the   *)
(* catalog is edited between two requests.                                 *)
(***************************************************************************)
\* the status codes the product routes answer with
ProductCodes == {200, 404}

\* the total of the line items at the given prices
RECURSIVE TotalAt(_, _)
TotalAt(items, prices) ==
    IF Len(items) = 0 THEN 0
    ELSE Head(items).quantity * prices[Head(items).product]
         + TotalAt(Tail(items), prices)

\* a product update that also brings the totals of the orders naming the
\* product to the new price
UpdateProductRepricing(id, newQuantity, newPrice, code) ==
    /\ IF id \in listed
       THEN /\ quantity' = [quantity EXCEPT ![id] = newQuantity]
            /\ price' = [price EXCEPT ![id] = newPrice]
            /\ orders' = [k \in 1..Len(orders) |->
                            [orders[k] EXCEPT !.totalAmount =
                                TotalAt(orders[k].items,
                                        [price EXCEPT ![id] = newPrice])]]
            /\ code = 200
       ELSE /\ UNCHANGED <<quantity, price, orders>>
            /\ code = 404
    /\ UNCHANGED <<req, listed, user, staff>>

\* lines 892-919: findByIdAndUpdate(productId, {..., quantity, price, ...})
\* with the quantity and the price of the request body, answered by code
UpdateProduct(id, newQuantity, newPrice, code) ==
    /\ IF id \in listed
       THEN /\ quantity' = [quantity EXCEPT ![id] = newQuantity]
            /\ price' = [price EXCEPT ![id] = newPrice]
            /\ code = 200
       ELSE /\ UNCHANGED <<quantity, price>>
            /\ code = 404
    /\ UNCHANGED <<orders, req, listed, user, staff>>

\* lines 945-959: findByIdAndDelete(productId), answered by code
DeleteProduct(id, code) ==
    /\ IF id \in listed
       THEN /\ listed' = listed \ {id}
            /\ code = 200
       ELSE /\ UNCHANGED listed
            /\ code = 404
    /\ UNCHANGED <<quantity, orders, req, price, user, staff>>

\* the quantity and the price a product update carries
UpdateQuantities == {InitQuantity + 1}
UpdatePrices == {80}
\* the identifiers the catalog requests name: a product, and no product
EditedIds == {"p1", MissingProduct}

NextCatalog ==
    \/ /\ Quiet
       /\ \E r \in Reqs, account \in BOOLEAN, items \in Carts(1..MaxItemQty),
             promotion \in {"promo", "None"} :
               AddToCart(r, account, items, promotion)
    \/ \E r \in Reqs : CartFindProduct(r)
    \/ \E r \in Reqs, outcome \in Outcomes : CartSaveProduct(r, outcome)
    \/ \E r \in Reqs, outcome \in Outcomes : CartSaveOrder(r, outcome)
    \/ \E r \in Reqs, outcome \in Outcomes : CartBuildPaymentUrl(r, outcome)
    \/ /\ Quiet
       /\ \E ref \in Refs, code \in {"00", "24"}, answer \in Answers :
               VnpayReturn(ref, code, answer)
    \/ /\ Quiet
       /\ \E r \in Reqs, orderId \in Refs : CancelOrder(r, orderId)
    \/ \E r \in Reqs : CancelFindProduct(r)
    \/ \E r \in Reqs, outcome \in Outcomes : CancelSaveProduct(r, outcome)
    \/ \E r \in Reqs, outcome \in Outcomes : CancelSaveOrder(r, outcome)
    \/ /\ Quiet
       /\ \E id \in EditedIds, newQuantity \in UpdateQuantities,
             newPrice \in UpdatePrices, code \in ProductCodes :
               UpdateProduct(id, newQuantity, newPrice, code)
    \/ /\ Quiet
       /\ \E id \in EditedIds, code \in ProductCodes : DeleteProduct(id, code)

SpecCatalog == Init /\ [][NextCatalog]_vars

(***************************************************************************)
(* The order workflow with the requests served one after the other, a      *)
(* cancel-order request coming from any account that authMiddleware lets   *)
(* through.                                                                *)
(***************************************************************************)
\* authMiddleware: the request carries the token of an account
AuthMiddleware(who) == who \in Accounts

NextAuth ==
    \/ /\ Quiet
       /\ \E r \in Reqs, account \in BOOLEAN, items \in Carts(1..MaxItemQty),
             promotion \in {"promo", "None"} :
               AddToCart(r, account, items, promotion)
    \/ \E r \in Reqs : CartFindProduct(r)
    \/ \E r \in Reqs, outcome \in Outcomes : CartSaveProduct(r, outcome)
    \/ \E r \in Reqs, outcome \in Outcomes : CartSaveOrder(r, outcome)
    \/ \E r \in Reqs, outcome \in Outcomes : CartBuildPaymentUrl(r, outcome)
    \/ /\ Quiet
       /\ \E ref \in Refs, code \in {"00", "24"}, answer \in Answers :
               VnpayReturn(ref, code, answer)
    \/ /\ Quiet
       /\ \E r \in Reqs, orderId \in Refs, who \in Accounts :
               AuthMiddleware(who) /\ CancelOrderAs(r, orderId, who)
    \/ \E r \in Reqs : CancelFindProduct(r)
    \/ \E r \in Reqs, outcome \in Outcomes : CancelSaveProduct(r, outcome)
    \/ \E r \in Reqs, outcome \in Outcomes : CancelSaveOrder(r, outcome)

SpecAuth == Init /\ [][NextAuth]_vars

(***************************************************************************)
(* The manager routes (src/routes/managerRoute.js) and the creation of     *)
(* customer accounts, against the Account collection.  The n-th persisted  *)
(* account has identifier n.                                               *)
(***************************************************************************)
Emails == {"m1@shop", "m2@shop"}
Roles == {"customer", "manager"}
AccountIds == 1..MaxAccounts

\* db.Account.find({ role: "manager" }): the emails of the documents found
ManagerEmails ==
    {accounts[k].email : k \in {j \in 1..Len(accounts) : accounts[j].role = "manager"}}

\* customerRoute.post("/"): findOne({ email }), new db.Account({..., role:
\* "customer"}) and customer.save(), answered by code
CreateCustomer(email, code) ==
    /\ Len(accounts) < MaxAccounts
    /\ IF \E k \in 1..Len(accounts) : accounts[k].email = email
       THEN /\ code = 400
            /\ UNCHANGED accounts
       ELSE /\ code = 201
            /\ accounts' = Append(accounts,
                                  [email |-> email, role |-> "customer",
                                   status |-> TRUE])
    /\ UNCHANGED <<quantity, orders, req, catalog, user, answer201>>

\* lines 113-126: new db.Account({email, phone, password, role: "manager"}),
\* new db.Account(manager) and the 201 with the document; nothing is saved
CreateManager(email, code) ==
    /\ code = 201
    /\ answer201' = answer201 \cup {email}
    /\ UNCHANGED <<quantity, orders, req, catalog, user, accounts>>

\* lines 33-48: find({ role: "manager" }), answered 200 with the managers
ListManagers(listing) ==
    /\ listing = ManagerEmails
    /\ UNCHANGED vars

\* lines 167-185: findByIdAndUpdate(managerId, updateData) with the role and
\* the status of the request body, then the 404 for a document that is
\* missing or, after the update, no manager
UpdateManager(id, role, status, code) ==
    /\ IF id \in 1..Len(accounts)
       THEN /\ accounts' = [accounts EXCEPT ![id].role = role,
                                            ![id].status = status]
            /\ code = IF role = "manager" THEN 200 ELSE 404
       ELSE /\ UNCHANGED accounts
            /\ code = 404
    /\ UNCHANGED <<quantity, orders, req, catalog, user, answer201>>

\* lines 209-220: findById, the 404, findByIdAndUpdate(id, {status: false})
DeleteManager(id, code) ==
    /\ IF id \in 1..Len(accounts)
       THEN /\ accounts' = [accounts EXCEPT ![id].status = FALSE]
            /\ code = 200
       ELSE /\ UNCHANGED accounts
            /\ code = 404
    /\ UNCHANGED <<quantity, orders, req, catalog, user, answer201>>

NextManager ==
    \/ \E email \in Emails, code \in {201, 400} : CreateCustomer(email, code)
    \/ \E email \in Emails, code \in {201, 500} : CreateManager(email, code)
    \/ \E listing \in SUBSET Emails : ListManagers(listing)
    \/ \E id \in AccountIds, role \in Roles, status \in BOOLEAN,
          code \in {200, 404} : UpdateManager(id, role, status, code)
    \/ \E id \in AccountIds, code \in {200, 404} : DeleteManager(id, code)

SpecManager == Init /\ [][NextManager]_vars

(***************************************************************************)
(* Properties of the order workflow.                                       *)
(***************************************************************************)
CartEnded(r) == req[r].kind = "cart" /\ req[r].pc = "done"
CancelEnded(r) == req[r].kind = "cancel" /\ req[r].pc = "done"
\* the submission was answered 201
Succeeded(r) == CartEnded(r) /\ req[r].resp.code = 201

\* the quantity of product p over the line items
RECURSIVE QtyOf(_, _)
QtyOf(items, p) ==
    IF Len(items) = 0 THEN 0
    ELSE (IF Head(items).product = p THEN Head(items).quantity ELSE 0)
         + QtyOf(Tail(items), p)

\* the quantity of p in the succeeded submissions among requests 1..n
RECURSIVE Reserved(_, _)
Reserved(n, p) ==
    IF n = 0 THEN 0
    ELSE (IF Succeeded(n) THEN QtyOf(orders[req[n].orderId].items, p) ELSE 0)
         + Reserved(n - 1, p)

DistinctProducts(items) ==
    \A a, b \in 1..Len(items) : a # b => items[a].product # items[b].product

\* C1: whatever the interleaving of the add-to-cart submissions (no
\* cancellation has been requested, every cart names a product once), the
\* line quantities of the submissions answered 201 add up, for every product,
\* to at most the product's initial quantity.
C1_ReservedWithinStock ==
    (/\ \A r \in Reqs : req[r].kind # "cancel"
     /\ \A r \in Reqs : Succeeded(r) => DistinctProducts(orders[req[r].orderId].items))
    => \A p \in Products : Reserved(MaxReqs, p) <= InitQuantity

\* C2: in every reachable state the persisted quantity of every product is
\* at least 0.
C2_StockNeverNegative == \A p \in Products : quantity[p] >= 0

\* two submissions of the same product were both answered 201, one of the
\* two orders was paid and canceled, and the product's stock is 0
C2_Witness ==
    \E p \in Products :
        /\ quantity[p] = 0
        /\ Cardinality({r \in Reqs : /\ Succeeded(r)
                                     /\ QtyOf(orders[req[r].orderId].items, p) >= 1}) = 2
        /\ \E r \in Reqs : /\ CancelEnded(r) /\ req[r].canceled
                            /\ QtyOf(orders[req[r].orderId].items, p) >= 1

\* C3: every change of an order's status is Pending -> Paid by a callback
\* with the success code, or Paid -> Canceled by a cancellation request.
C3_OnlyTwoTransitions ==
    [][\A o \in 1..Len(orders) :
          orders'[o].status # orders[o].status =>
             \/ /\ orders[o].status = "Pending" /\ orders'[o].status = "Paid"
                /\ \E answer \in Answers : VnpayReturn(o, "00", answer)
             \/ /\ orders[o].status = "Paid" /\ orders'[o].status = "Canceled"
                /\ \E r \in Reqs, outcome \in Outcomes : CancelSaveOrder(r, outcome)]_vars

\* the line item asks for more than the stored quantity of its product
OverRequests(item) ==
    /\ item.product \in Products
    /\ quantity[item.product] < item.quantity

\* the step rejects request r for the stock of the line item, with the
\* available and the requested count, and nothing is persisted by the request
RejectedForStock(r, item) ==
    /\ req'[r].pc = "done"
    /\ req'[r].resp = NotEnoughStock(quantity[item.product], item.quantity)
    /\ req'[r].saved = 0 /\ req'[r].orderId = 0
    /\ quantity' = quantity /\ orders' = orders

\* C4: a cart one of whose line items asks for more than the product's
\* available quantity, alone or after valid line items, is answered 400 with
\* the available and the requested count; the request has changed no
\* product's quantity and has created no Order.
C4_OverRequestRejected ==
    [][\A r \in Reqs :
         /\ (req[r].pc = "idle" /\ req'[r].kind = "cart") =>
               \A items \in Carts(1..MaxItemQty), promotion \in {"promo", "None"} :
                  (/\ Len(items) >= 1
                   /\ OverRequests(items[1])
                   /\ AddToCart(r, TRUE, items, promotion))
                  => RejectedForStock(r, items[1])
         /\ (req[r].kind = "cart" /\ req[r].pc = "find") =>
               ((OverRequests(req[r].items[req[r].i]) /\ CartFindProduct(r))
                  => RejectedForStock(r, req[r].items[req[r].i]))]_vars

\* a cart was answered 400 for its second line item, after a valid first one
C4_Witness ==
    \E r \in Reqs : /\ CartEnded(r)
                    /\ req[r].resp.kind = "NotEnoughStock"
                    /\ req[r].i = 2

\* the step rejects request r with the 404, and nothing is persisted by it
RejectedForProduct(r) ==
    /\ req'[r].pc = "done"
    /\ req'[r].resp = ProductNotFound
    /\ req'[r].saved = 0 /\ req'[r].orderId = 0
    /\ quantity' = quantity /\ orders' = orders

C6_SecondDeliveryNoOp ==
    \A o \in 1..Len(orders) :
        /\ orders[o].status = "Pending" =>
              /\ ENABLED VnpayReturn(o, "00", "payment-success")
              /\ ~ENABLED (VnpayReturn(o, "00", "payment-success")
                             /\ orders'[o].status # "Paid")
        /\ orders[o].status = "Paid" =>
              /\ ENABLED VnpayReturn(o, "00", "payment-success")
              /\ ~ENABLED (VnpayReturn(o, "00", "payment-success") /\ vars' # vars)
              /\ \A answer \in Answers \ {"payment-success"} :
                    ~ENABLED VnpayReturn(o, "00", answer)

\* an order is Paid: the first delivery has acted, and the second one, which
\* changes nothing, leaves this very state
C6_Witness ==
    \E o \in 1..Len(orders) :
        /\ orders[o].status = "Paid"
        /\ \E r \in Reqs : Succeeded(r) /\ req[r].orderId = o

\* C7: a cancellation request for an order that is Pending or Canceled is
\* answered 400, leaves the order's status as it is and changes no product
\* quantity.
C7_CancelOnlyFromPaid ==
    [][\A r \in Reqs :
         (req[r].pc = "idle" /\ req'[r].kind = "cancel") =>
            \A o \in 1..Len(orders) :
               (/\ orders[o].status \in {"Pending", "Canceled"}
                /\ CancelOrder(r, o))
               => /\ req'[r].pc = "done"
                  /\ req'[r].resp = OnlyPaid
                  /\ req'[r].restored = {} /\ ~req'[r].canceled
                  /\ req'[r].saved = 0
                  /\ orders' = orders /\ quantity' = quantity]_vars

\* a cancellation was refused for an order that an earlier request had
\* canceled
C7_Witness ==
    \E r1, r2 \in Reqs :
          /\ r1 < r2
          /\ CancelEnded(r1) /\ req[r1].canceled
          /\ CancelEnded(r2) /\ req[r2].resp = OnlyPaid
          /\ req[r1].orderId = req[r2].orderId
          /\ orders[req[r2].orderId].status = "Canceled"

\* C8: a cancellation of a Paid order (all of its saves succeed) is answered
\* 200 with refundAmount half of the order's totalAmount.
C8_RefundIsHalf ==
    \A r \in Reqs :
        (CancelEnded(r) /\ req[r].canceled) =>
            /\ req[r].resp.code = 200
            /\ 2 * req[r].resp.a = orders[req[r].orderId].totalAmount

\* C9: when the cancellation of a Paid order has completed, the stock of
\* every line item of the order has been restored.
C9_EveryLineItemRestored ==
    \A r \in Reqs :
        (CancelEnded(r) /\ req[r].canceled) =>
            req[r].restored = 1..Len(orders[req[r].orderId].items)

\* C10: after a cancellation request has ended, it has persisted status
\* Canceled exactly if it has restored the stock of every line item.
C10_CancelAllOrNothing ==
    \A r \in Reqs :
        CancelEnded(r) =>
            /\ req[r].canceled =>
                  req[r].restored = 1..Len(orders[req[r].orderId].items)
            /\ req[r].restored # {} => req[r].canceled

\* sum over the line items of quantity times the product's price
RECURSIVE Total(_)
Total(items) ==
    IF Len(items) = 0 THEN 0
    ELSE Head(items).quantity * price[Head(items).product] + Total(Tail(items))

\* the cart of the end-to-end scenario: ScenarioItemQty units of p1, whose
\* price is 100 and whose stock is ScenarioQuantity
ScenarioCart == <<[product |-> "p1", quantity |-> ScenarioItemQty]>>

\* the first request is the scenario's submission, answered 201, and at most
\* one more request, a cancellation of its order, has arrived
ScenarioRuns ==
    /\ Succeeded(1) /\ req[1].orderId = 1
    /\ orders[1].items = ScenarioCart
    /\ req[2].kind \in {"none", "cancel"}
    /\ req[2].kind = "cancel" => req[2].orderId = 1
    /\ req[3].pc = "idle"

\* C11: with p1 at quantity 10 and price 100, the cart {p1, 3} creates an
\* Order Pending with totalAmount 300 and sets the quantity to 7; a success
\* callback makes the order Paid; the cancellation then answers refundAmount
\* 150, makes the order Canceled and returns the quantity to 10.
C11_EndToEnd ==
    /\ [](ScenarioRuns =>
            /\ orders[1].totalAmount = 300
            /\ req[2].pc = "idle" =>
                  /\ quantity["p1"] = 7
                  /\ orders[1].status \in {"Pending", "Paid"}
            /\ (CancelEnded(2) /\ req[2].canceled) =>
                  /\ req[2].resp = Refunded(150)
                  /\ quantity["p1"] = 10)
    /\ [][/\ \A r \in Reqs :
               (req[r].kind = "cart" /\ req[r].items = ScenarioCart
                  /\ CartSaveOrder(r, "ok") /\ req[r].promotion = "promo")
               => /\ Len(orders') = Len(orders) + 1
                  /\ orders'[Len(orders')].status = "Pending"
          /\ \A o \in 1..Len(orders), answer \in Answers :
               (orders[o].status = "Pending" /\ VnpayReturn(o, "00", answer))
               => orders'[o].status = "Paid"
          /\ \A r \in Reqs :
               (req[r].kind = "cancel" /\ req[r].pc = "order"
                  /\ CancelSaveOrder(r, "ok"))
               => orders'[req[r].orderId].status = "Canceled"]_vars

\* C12: a submission over distinct products decreases, with each of its
\* product saves, the quantity of that line item's product by exactly the
\* line quantity, persists exactly one new Order, Pending, with the submitted
\* line items and the sum of quantity times price as totalAmount, and is
\* answered 201 after as many product saves as it has line items.
C12_SuccessfulSubmission ==
    [][\A r \in Reqs :
         (/\ req[r].kind = "cart"
          /\ req[r].pc \in {"save", "order", "pay"}
          /\ DistinctProducts(req[r].items)) =>
            /\ (req[r].pc = "save" /\ CartSaveProduct(r, "ok")) =>
                  quantity' = [quantity EXCEPT
                                 ![req[r].items[req[r].i].product] =
                                     @ - req[r].items[req[r].i].quantity]
            /\ (/\ req[r].pc = "order" /\ CartSaveOrder(r, "ok")
                /\ req[r].promotion = "promo"
                /\ \A k \in 1..Len(req[r].items) : req[r].items[k].quantity >= 1) =>
                  orders' = Append(orders,
                                   [account |-> TRUE, items |-> req[r].items,
                                    promotion |-> "promo",
                                    totalAmount |-> Total(req[r].items),
                                    status |-> "Pending"])
            /\ (req[r].pc = "pay" /\ CartBuildPaymentUrl(r, "ok")) =>
                  /\ req'[r].resp = Created(req[r].orderId)
                  /\ req'[r].saved = Len(req[r].items)
                  /\ orders' = orders /\ quantity' = quantity]_vars

\* the first submission, of two distinct products, was answered 201: both
\* stocks are down by the line quantity and the order holds the total
C12_Witness ==
    /\ Succeeded(1) /\ req[2].pc = "idle"
    /\ Len(orders) = 1 /\ Len(orders[1].items) = 2
    /\ DistinctProducts(orders[1].items)
    /\ \A p \in Products : quantity[p] = ScenarioQuantity - ScenarioItemQty
    /\ orders[1].totalAmount = Total(orders[1].items)

\* C13: a submission without promotion identifier (valid account, line items
\* in stock) whose saves succeed persists a Pending Order.
C13_PromotionOptional ==
    [][\A r \in Reqs :
         (/\ req[r].kind = "cart" /\ req[r].pc = "order"
          /\ req[r].promotion = "None"
          /\ CartSaveOrder(r, "ok"))
         => /\ Len(orders') = Len(orders) + 1
            /\ orders'[Len(orders')].status = "Pending"
            /\ req'[r].pc # "done"]_vars

\* C14: the refund-confirmation notification does not fail the cancellation:
\* a cancellation that has restored the stock and persisted Canceled is
\* answered with the refund, not with an error.
C14_NotificationNeverFails ==
    \A r \in Reqs :
        (CancelEnded(r) /\ req[r].canceled /\ req[r].restored # {}) =>
            req[r].resp.kind = "Refunded"

\* C15: when building the payment URL fails, the submission is answered 500
\* and the quantity of every product it decremented is back at its value
\* before the submission.
C15_StockReleasedOnGatewayFailure ==
    [][\A r \in Reqs :
         (/\ req[r].kind = "cart" /\ req[r].pc = "pay"
          /\ CartBuildPaymentUrl(r, "error"))
         => /\ req'[r].resp.code = 500
            /\ \A p \in Products :
                  quantity'[p] = quantity[p]
                                 + QtyOf(orders[req[r].orderId].items, p)]_vars

\* C16: a submission without account, without items or with an empty items
\* list is answered 400, changes no product and creates no Order.
C16_InvalidCartRejected ==
    [][\A r \in Reqs :
         (req[r].pc = "idle" /\ req'[r].kind = "cart") =>
            \A account \in BOOLEAN, items \in Carts(1..MaxItemQty),
               promotion \in {"promo", "None"} :
               (/\ ~account \/ Len(items) = 0
                /\ AddToCart(r, account, items, promotion))
               => /\ req'[r].pc = "done"
                  /\ req'[r].resp = EmptyCart
                  /\ req'[r].saved = 0 /\ req'[r].orderId = 0
                  /\ quantity' = quantity /\ orders' = orders]_vars

\* a submission was answered with the 400 of the validation
C16_Witness ==
    \E r \in Reqs : /\ CartEnded(r)
                    /\ req[r].resp = EmptyCart
                    /\ req[r].saved = 0 /\ req[r].orderId = 0

\* C17: no step of a submission one of whose line items has a quantity below
\* 1 changes a product's quantity or creates an Order, and the submission is
\* not answered 201.
C17_QuantityBelowOneRejected ==
    [][\A r \in Reqs :
         (/\ req[r].kind = "cart" /\ req[r].pc # "done"
          /\ \E k \in 1..Len(req[r].items) : req[r].items[k].quantity < 1
          /\ req'[r] # req[r])
         => /\ quantity' = quantity
            /\ orders' = orders
            /\ req'[r].pc = "done" => req'[r].resp.code # 201]_vars

\* C18: of the cancellation requests for one order at most one persists
\* Canceled, and at most one restores stock.
C18_OneCancellationPerOrder ==
    \A o \in OrderIds :
        Cardinality({r \in Reqs : /\ req[r].kind = "cancel"
                                  /\ req[r].orderId = o
                                  /\ (req[r].restored # {} \/ req[r].canceled)}) <= 1

\* C19: when a submission ends, it has persisted the decrement of every one
\* of its line items or of none.
C19_AllOrNoDecrement ==
    [][\A r \in Reqs :
         (req[r].kind = "cart" /\ req[r].pc # "done" /\ req'[r].pc = "done")
         => req'[r].saved \in {0, Len(req[r].items)}]_vars

\* C20: a callback with a failure code for a Pending order is answered by the
\* redirect to the failure page and changes neither the order, which stays
\* Pending, nor a product's quantity.
C20_FailureCallbackNoOp ==
    \A o \in 1..Len(orders) :
        orders[o].status = "Pending" =>
            /\ ENABLED VnpayReturn(o, "24", "payment-failed")
            /\ \A answer \in Answers :
                  ~ENABLED (VnpayReturn(o, "24", answer) /\ vars' # vars)

\* an order is Pending with its stock reserved: the failure callback, which
\* changes nothing, leaves this very state
C20_Witness ==
    \E o \in 1..Len(orders), r \in Reqs :
        /\ orders[o].status = "Pending"
        /\ Succeeded(r) /\ req[r].orderId = o
        /\ quantity[orders[o].items[1].product] = 0

C22_QuantityOnlyByWorkflow ==
    [][\A p \in Products :
         /\ quantity'[p] < quantity[p] =>
               \E r \in Reqs : /\ req[r].kind = "cart" /\ req[r].pc = "save"
                               /\ CartSaveProduct(r, "ok")
         /\ quantity'[p] > quantity[p] =>
               \E r \in Reqs : /\ req[r].kind = "cancel" /\ req[r].pc = "save"
                               /\ CancelSaveProduct(r, "ok")]_vars

\* C23: no step changes the line items or the totalAmount of a persisted
\* order: not a payment callback, not a cancellation, not a later change of
\* a product's price.
C23_OrderSnapshotFrozen ==
    [][/\ Len(orders') >= Len(orders)
       /\ \A o \in 1..Len(orders) :
            /\ orders'[o].items = orders[o].items
            /\ orders'[o].totalAmount = orders[o].totalAmount]_vars

\* an order was created at the initial price, paid and canceled, and the
\* price of its product was changed: the order still holds the old total
C23_Witness ==
    \E o \in 1..Len(orders) :
        /\ orders[o].status = "Canceled"
        /\ orders[o].items[1].product = "p1"
        /\ price["p1"] # InitPrice["p1"]
        /\ orders[o].totalAmount = TotalAt(orders[o].items, InitPrice)
        /\ orders[o].totalAmount # TotalAt(orders[o].items, price)

\* the account an order belongs to: every cart is submitted for Customer
Owner(o) == Customer

\* C24: no step of a cancellation request made by an account other than the
\* order's owner changes an order or a product's quantity.
C24_NonOwnerCannotCancel ==
    [][\A r \in Reqs :
         (/\ req[r].kind = "cancel" /\ req[r].pc # "done"
          /\ req[r].orderId \in 1..Len(orders)
          /\ user[r] # Owner(req[r].orderId)
          /\ req'[r] # req[r])
         => /\ orders' = orders
            /\ quantity' = quantity]_vars

\* C29: a cancellation of a Paid order one of whose line items references a
\* deleted product, when no save fails, ends with the order Canceled and
\* with the stock restored of exactly the line items whose product exists.
C29_CancelSkipsDeletedProduct ==
    [][\A r \in Reqs :
         (/\ req[r].kind = "cancel" /\ req[r].pc # "done"
          /\ \E k \in 1..Len(req[r].items) : req[r].items[k].product = NoProduct
          /\ req'[r].pc = "done"
          /\ ~CancelSaveProduct(r, "error")
          /\ ~CancelSaveOrder(r, "error"))
         => /\ orders'[req[r].orderId].status = "Canceled"
            /\ req'[r].restored =
                  {k \in 1..Len(req[r].items) : req[r].items[k].product # NoProduct}]_vars

\* the quantity of p in the line items of the orders 1..n that are Pending
\* or Paid
RECURSIVE Held(_, _)
Held(n, p) ==
    IF n = 0 THEN 0
    ELSE (IF orders[n].status \in {"Pending", "Paid"}
          THEN QtyOf(orders[n].items, p) ELSE 0)
         + Held(n - 1, p)

\* C25: when every request has completed, for every product the quantity
\* plus the line quantities of the product over the orders Pending or Paid
\* is the product's initial quantity.
C25_StockConservation ==
    Quiet => \A p \in Products :
                quantity[p] + Held(Len(orders), p) = ScenarioQuantity

\* C26: a cart with two line items of quantities a and b for one product is
\* answered 201 only if a + b is at most the product's quantity, and then
\* the product's quantity is down by a + b.
C26_SameProductTwice ==
    (/\ Succeeded(1) /\ req[2].pc = "idle"
     /\ Len(orders[1].items) = 2
     /\ orders[1].items[1].product = orders[1].items[2].product)
    => LET p == orders[1].items[1].product
           ab == orders[1].items[1].quantity + orders[1].items[2].quantity
       IN  /\ ab <= ScenarioQuantity
           /\ quantity[p] = ScenarioQuantity - ab

\* C27: when persisting the Order fails, the submission ends with an error
\* response and every product has the quantity it had before the submission.
C27_NoDecrementWithoutOrder ==
    [][\A r \in Reqs :
         (/\ req[r].kind = "cart" /\ req[r].pc = "order"
          /\ DistinctProducts(req[r].items)
          /\ req'[r].pc = "done")
         => /\ req'[r].resp.code >= 400
            /\ orders' = orders
            /\ \A p \in Products :
                  quantity'[p] = quantity[p] + QtyOf(req[r].items, p)]_vars

\* the quantity of p in the line items whose stock cancellation r restored
RestoredBy(r, p) ==
    LET its == orders[req[r].orderId].items
    IN  QtyOf([k \in 1..Len(its) |->
                  IF k \in req[r].restored THEN its[k]
                  ELSE [its[k] EXCEPT !.quantity = 0]], p)

\* the quantity of p restored by the cancellations among requests 1..n
RECURSIVE Restored(_, _)
Restored(n, p) ==
    IF n = 0 THEN 0
    ELSE (IF req[n].kind = "cancel" /\ req[n].restored # {}
          THEN RestoredBy(n, p) ELSE 0)
         + Restored(n - 1, p)

\* every request has completed: a submission with a 201 for a cart naming
\* every product once, or without having saved anything; a cancellation with
\* its restoration and status saved, or without having saved anything
AllCompleted ==
    \A r \in Reqs :
        /\ req[r].pc \in {"idle", "done"}
        /\ req[r].kind = "cart" =>
              \/ Succeeded(r) /\ DistinctProducts(orders[req[r].orderId].items)
              \/ req[r].saved = 0 /\ req[r].orderId = 0
        /\ req[r].kind = "cancel" =>
              \/ req[r].canceled /\ req[r].restored # {}
              \/ ~req[r].canceled /\ req[r].restored = {}

\* C28: whatever the interleaving of submissions and cancellations, once they
\* have completed the quantity of every product is its initial quantity minus
\* every reserved quantity plus every restored quantity.
C28_NoLostUpdate ==
    AllCompleted =>
        \A p \in Products :
            quantity[p] = InitQuantity - Reserved(MaxReqs, p) + Restored(MaxReqs, p)

\* C30: after a create-manager request is answered 201, the Account
\* collection holds a manager with the request's email: it is among the
\* managers that a following list-managers request returns.
C30_CreatedManagerIsListed ==
    [][\A email \in Emails :
         (email \notin answer201 /\ CreateManager(email, 201))
         => email \in ManagerEmails']_vars

=============================================================================
